---- MODULE Spec2Model ----
(***************************************************************************)
(* Model of kapidox/data/htmlresource/frameworks.js: the maintainer-column *)
(* toggle, the platform filter and the note tooltip of the frameworks page. *)
(* Strings that the script parses (data-platforms, data-platform) are       *)
(* sequences of one-character strings; element ids and note texts, which    *)
(* the script only passes around, are plain strings.                        *)
(***************************************************************************)
EXTENDS Integers, Sequences, FiniteSets, TLC

\* ------------------------------------------------------------------------
\* The page the script runs on (section 6 of the specification: the DOM
\* contract).  The page is fixed; it holds one framework row for every list
\* of at most MaxTags platform tags.

MaxTags == 2

Undefined == "undefined"
Null == "null"

\* The platform tags the page generator knows, among them the empty tag.
Tags == { <<>>, <<"l">>, <<"m">>, <<"l", "m">> }

RECURSIVE Join(_)
\* The data-platforms attribute of a framework with platform list tl.
Join(tl) ==
    IF Len(tl) = 0 THEN <<>>
    ELSE IF Len(tl) = 1 THEN tl[1]
    ELSE tl[1] \o <<",">> \o Join(Tail(tl))

\* $(".framework-row"): a row is identified by the platform list it was
\* generated from.
FrameworkRows == UNION { [1..n -> Tags] : n \in 0..MaxTags }

\* tr.getAttribute("data-platforms")
DataPlatforms(tr) == Join(tr)

\* $(".platform-checkbox"), in document order, and their data-platform.
PlatformCheckboxes == 1..3
DataPlatform == << <<"l">>, <<"m">>, <<>> >>

\* The cells carrying framework-platform and framework-platform-<tag>: one
\* per row and platform of that row.
PlatformCells == { c \in FrameworkRows \X (1..MaxTags) : c[2] <= Len(c[1]) }
CellTag(c) == c[1][c[2]]

\* $(".framework-maintainer-column")
MaintainerColumn == { "th", "td" }

\* $(".framework-platform > a") and their data-note.
NoteLinks == { "a1", "a2", "a3" }
DataNote(a) ==
    CASE a = "a1" -> "note one"
      [] a = "a2" -> "note two"
      [] OTHER    -> "note two"

VARIABLES
    pc,                          \* "load" before main() has run, then "ready"
    showMaintainers,             \* #showMaintainers .checked
    maintainerColumn,            \* visibility of each maintainer column element
    platformFilter,              \* #platform-filter .checked
    platformCheckbox,            \* .platform-checkbox .checked
    platformFilterGroup,         \* visibility of #platform-filter-group
    rowClass,                    \* available / not-available marks of each row
    cellRequired,                \* framework-platform-required mark of each cell
    g_noteTip,
    g_currentlyDescribedElement,
    ev                           \* the handler that ran last, and what it saw

vars == << pc, showMaintainers, maintainerColumn, platformFilter,
           platformCheckbox, platformFilterGroup, rowClass, cellRequired,
           g_noteTip, g_currentlyDescribedElement, ev >>

\* op: the handler; arg: the element clicked; cur, shown, marked, required:
\* the value of g_currentlyDescribedElement, whether the tooltip was on
\* screen, whether some row carried a mark and whether some cell carried the
\* required mark when the handler started; prevented: whether the handler
\* suppressed the default action.
Event(op, arg, prevented) ==
    [op |-> op, arg |-> arg,
     cur |-> g_currentlyDescribedElement,
     shown |-> (pc = "ready" /\ g_noteTip.visible),
     marked |-> (\E tr \in DOMAIN rowClass : rowClass[tr] # {}),
     required |-> (\E c \in DOMAIN cellRequired : cellRequired[c]),
     prevented |-> prevented]

\* ------------------------------------------------------------------------
\* String and array primitives used by the script.

\* The index of the first "," in s, 0 when there is none.
FirstComma(s) ==
    IF \E i \in 1..Len(s) : s[i] = ","
    THEN CHOOSE i \in 1..Len(s) : s[i] = "," /\ \A j \in 1..(i-1) : s[j] # ","
    ELSE 0

RECURSIVE split_dropEmpty(_)
\* A split that leaves the empty pieces out, so that "" yields [].
split_dropEmpty(s) ==
    LET i == FirstComma(s) IN
    IF i = 0 THEN (IF Len(s) = 0 THEN <<>> ELSE << s >>)
    ELSE (IF i = 1 THEN <<>> ELSE << SubSeq(s, 1, i-1) >>)
         \o split_dropEmpty(SubSeq(s, i+1, Len(s)))

RECURSIVE split(_)
\* String.prototype.split(","): "" yields [""].
split(s) ==
    LET i == FirstComma(s) IN
    IF i = 0 THEN << s >>
    ELSE << SubSeq(s, 1, i-1) >> \o split(SubSeq(s, i+1, Len(s)))

\* Array.prototype.indexOf: zero-based, -1 when x is absent.
indexOf(arr, x) ==
    IF \E i \in 1..Len(arr) : arr[i] = x
    THEN (CHOOSE i \in 1..Len(arr) : arr[i] = x /\ \A j \in 1..(i-1) : arr[j] # x) - 1
    ELSE -1

\* ------------------------------------------------------------------------
\* updateMaintainers (lines 3-10): the visibility it gives the column.

\* A toggle that forgets to hide the column.
updateMaintainers_showOnly(checked) == [m \in MaintainerColumn |-> TRUE]

updateMaintainers(checked) ==
    IF checked
    THEN [m \in MaintainerColumn |-> TRUE]
    ELSE [m \in MaintainerColumn |-> FALSE]

\* ------------------------------------------------------------------------
\* updatePlatforms (lines 12-46).

RECURSIVE collectWanted(_, _)
\* Lines 24-30: the tags of the checked checkboxes from index idx on.
collectWanted(checked, idx) ==
    IF idx > Len(DataPlatform) THEN <<>>
    ELSE IF checked[idx]
         THEN << DataPlatform[idx] >> \o collectWanted(checked, idx + 1)
         ELSE collectWanted(checked, idx + 1)

\* A collection that takes every checkbox, checked or not.
wantedPlatforms_all(checked) == DataPlatform

wantedPlatforms(checked) == collectWanted(checked, 1)

\* The reversed test: every platform of the row is wanted.
show_reversed(wanted, tr) ==
    LET fwPlatforms == split(DataPlatforms(tr)) IN
    \A idx \in 1..Len(fwPlatforms) : indexOf(wanted, fwPlatforms[idx]) # -1

\* Lines 36-39: does the row offer every wanted platform?  Array.every is
\* the quantifier over the elements of wanted, in order.
show(wanted, tr) ==
    LET fwPlatforms == split(DataPlatforms(tr)) IN
    \A idx \in 1..Len(wanted) : indexOf(fwPlatforms, wanted[idx]) # -1

\* A marking that leaves a row alone once it carries a mark.
markRow_keepMarked(cls, shown) ==
    IF cls # {} THEN cls
    ELSE IF shown THEN {"available"} ELSE {"not-available"}

\* A marking that adds the new mark and leaves the old one.
markRow_addOnly(cls, shown) ==
    IF shown THEN cls \cup {"available"} ELSE cls \cup {"not-available"}

\* Lines 40-44: the marks of a row after it was tested.
markRow(cls, shown) ==
    IF shown
    THEN (cls \ {"not-available"}) \cup {"available"}
    ELSE (cls \ {"available"}) \cup {"not-available"}

\* An unmarking that removes only one of the two marks.
unmarkRow_oneMark(cls) == cls \ {"not-available"}

\* Line 19: the marks of a row when filtering is off.
unmarkRow(cls) == (cls \ {"not-available"}) \ {"available"}

\* A marking that never takes an earlier required mark away.
requiredCell_sticky(wanted, c) ==
    cellRequired[c] \/ \E idx \in 1..Len(wanted) : CellTag(c) = wanted[idx]

\* Lines 14 and 31-34: the required mark of a cell.
requiredCell(wanted, c) ==
    \E idx \in 1..Len(wanted) : CellTag(c) = wanted[idx]

\* An updatePlatforms that shows the panel and never hides it again.
updatePlatforms_panelStuck(doFilter, checked) ==
    IF doFilter
    THEN /\ platformFilterGroup' = TRUE
         /\ cellRequired' =
                [c \in PlatformCells |-> requiredCell(wantedPlatforms(checked), c)]
         /\ rowClass' =
                [tr \in FrameworkRows |->
                    markRow(rowClass[tr], show(wantedPlatforms(checked), tr))]
    ELSE /\ platformFilterGroup' = platformFilterGroup
         /\ cellRequired' = [c \in PlatformCells |-> FALSE]
         /\ rowClass' = [tr \in FrameworkRows |-> unmarkRow(rowClass[tr])]

updatePlatforms(doFilter, checked) ==
    IF doFilter
    THEN /\ platformFilterGroup' = TRUE
         /\ cellRequired' =
                [c \in PlatformCells |-> requiredCell(wantedPlatforms(checked), c)]
         /\ rowClass' =
                [tr \in FrameworkRows |->
                    markRow(rowClass[tr], show(wantedPlatforms(checked), tr))]
    ELSE /\ platformFilterGroup' = FALSE
         /\ cellRequired' = [c \in PlatformCells |-> FALSE]
         /\ rowClass' = [tr \in FrameworkRows |-> unmarkRow(rowClass[tr])]

\* ------------------------------------------------------------------------
\* NoteTip, the tooltip widget the script drives.

NoteTip_new == [visible |-> FALSE, text |-> Undefined, anchor |-> Null]
NoteTip_setText(tip, text) == [tip EXCEPT !.text = text]
NoteTip_show(tip, element) == [tip EXCEPT !.visible = TRUE, !.anchor = element]

\* A callback that leaves the reference as it is.
onHide_keep(cur) == cur

\* Lines 53-55: the onHide callback; its value is the new
\* g_currentlyDescribedElement.
onHide(cur) == Null

\* hide() takes the tooltip off the screen and reports it through onHide.
NoteTip_hide(tip, cur) ==
    [tip |-> [tip EXCEPT !.visible = FALSE, !.anchor = Null], cur |-> onHide(cur)]

\* A handler that shows the tooltip on every click.
noteClick_alwaysShow(this, cur, tip) ==
    [cur |-> this,
     tip |-> NoteTip_show(NoteTip_setText(tip, DataNote(this)), this),
     ret |-> FALSE]

\* A handler that hides the tooltip whenever some link is described.
noteClick_hideOnAny(this, cur, tip) ==
    IF cur \in NoteLinks
    THEN [cur |-> NoteTip_hide(tip, cur).cur,
          tip |-> NoteTip_hide(tip, cur).tip,
          ret |-> FALSE]
    ELSE [cur |-> this,
          tip |-> NoteTip_show(NoteTip_setText(tip, DataNote(this)), this),
          ret |-> FALSE]

\* A handler that shows the tooltip without setting its text.
noteClick_noText(this, cur, tip) ==
    IF cur = this
    THEN [cur |-> NoteTip_hide(tip, cur).cur,
          tip |-> NoteTip_hide(tip, cur).tip,
          ret |-> FALSE]
    ELSE [cur |-> this,
          tip |-> NoteTip_show(tip, this),
          ret |-> FALSE]

\* A handler that shows the tooltip without recording the link.
noteClick_noRef(this, cur, tip) ==
    IF cur = this
    THEN [cur |-> NoteTip_hide(tip, cur).cur,
          tip |-> NoteTip_hide(tip, cur).tip,
          ret |-> FALSE]
    ELSE [cur |-> cur,
          tip |-> NoteTip_show(NoteTip_setText(tip, DataNote(this)), this),
          ret |-> FALSE]

\* A handler that returns false in the show branch only.
noteClick_hideFallsThrough(this, cur, tip) ==
    IF cur = this
    THEN [cur |-> NoteTip_hide(tip, cur).cur,
          tip |-> NoteTip_hide(tip, cur).tip,
          ret |-> TRUE]
    ELSE [cur |-> this,
          tip |-> NoteTip_show(NoteTip_setText(tip, DataNote(this)), this),
          ret |-> FALSE]

\* Lines 57-67: the click handler of a note link; this is the clicked link.
noteClick(this, cur, tip) ==
    IF cur = this
    THEN [cur |-> NoteTip_hide(tip, cur).cur,
          tip |-> NoteTip_hide(tip, cur).tip,
          ret |-> FALSE]
    ELSE [cur |-> this,
          tip |-> NoteTip_show(NoteTip_setText(tip, DataNote(this)), this),
          ret |-> FALSE]

\* ------------------------------------------------------------------------
\* The page as the browser hands it to main().

Init ==
    /\ pc = "load"
    /\ showMaintainers \in BOOLEAN
    /\ maintainerColumn \in [MaintainerColumn -> BOOLEAN]
    /\ platformFilter \in BOOLEAN
    /\ platformCheckbox \in [PlatformCheckboxes -> BOOLEAN]
    /\ platformFilterGroup \in BOOLEAN
    /\ rowClass = [tr \in FrameworkRows |-> {}]
    /\ cellRequired = [c \in PlatformCells |-> FALSE]
    /\ g_noteTip = Undefined
    /\ g_currentlyDescribedElement = Undefined
    /\ ev = [op |-> "none", arg |-> "none", cur |-> Undefined, shown |-> FALSE,
             marked |-> FALSE, required |-> FALSE, prevented |-> FALSE]

filterVars == << platformFilter, platformCheckbox, platformFilterGroup,
                 rowClass, cellRequired >>
tipVars == << g_noteTip, g_currentlyDescribedElement >>

\* A main that also synchronises the platform filter.
main_runsFilter ==
    /\ pc = "load"
    /\ pc' = "ready"
    /\ g_noteTip' = NoteTip_new
    /\ maintainerColumn' = updateMaintainers(showMaintainers)
    /\ UNCHANGED << platformFilter, platformCheckbox >>
    /\ updatePlatforms(platformFilter, platformCheckbox)
    /\ ev' = Event("main", "none", FALSE)
    /\ UNCHANGED << showMaintainers, g_currentlyDescribedElement >>

\* main (lines 70-76): attach the handlers, initNoteTip, updateMaintainers.
main ==
    /\ pc = "load"
    /\ pc' = "ready"
    /\ g_noteTip' = NoteTip_new
    /\ maintainerColumn' = updateMaintainers(showMaintainers)
    /\ ev' = Event("main", "none", FALSE)
    /\ UNCHANGED << showMaintainers, filterVars, g_currentlyDescribedElement >>

\* A toggle whose selector also catches the filter-options panel.
ClickShowMaintainers_hidesPanel ==
    /\ pc = "ready"
    /\ showMaintainers' = ~showMaintainers
    /\ maintainerColumn' = updateMaintainers(showMaintainers')
    /\ platformFilterGroup' = showMaintainers'
    /\ ev' = Event("updateMaintainers", "showMaintainers", FALSE)
    /\ UNCHANGED << pc, platformFilter, platformCheckbox, rowClass, cellRequired,
                    tipVars >>

\* Click on #showMaintainers: the browser toggles the box, then the handler.
ClickShowMaintainers ==
    /\ pc = "ready"
    /\ showMaintainers' = ~showMaintainers
    /\ maintainerColumn' = updateMaintainers(showMaintainers')
    /\ ev' = Event("updateMaintainers", "showMaintainers", FALSE)
    /\ UNCHANGED << pc, filterVars, tipVars >>

\* Click on #platform-filter.
ClickPlatformFilter ==
    /\ pc = "ready"
    /\ platformFilter' = ~platformFilter
    /\ UNCHANGED platformCheckbox
    /\ updatePlatforms(platformFilter', platformCheckbox')
    /\ ev' = Event("updatePlatforms", "platform-filter", FALSE)
    /\ UNCHANGED << pc, showMaintainers, maintainerColumn, tipVars >>

\* Click on the i-th .platform-checkbox.
ClickPlatformCheckbox(i) ==
    /\ pc = "ready"
    /\ platformCheckbox' = [platformCheckbox EXCEPT ![i] = ~platformCheckbox[i]]
    /\ UNCHANGED platformFilter
    /\ updatePlatforms(platformFilter', platformCheckbox')
    /\ ev' = Event("updatePlatforms", "platform-checkbox", FALSE)
    /\ UNCHANGED << pc, showMaintainers, maintainerColumn, tipVars >>

\* Click on a note link.
ClickNoteLink(a) ==
    /\ pc = "ready"
    /\ LET r == noteClick(a, g_currentlyDescribedElement, g_noteTip) IN
         /\ g_currentlyDescribedElement' = r.cur
         /\ g_noteTip' = r.tip
         /\ ev' = Event("click", a, ~r.ret)
    /\ UNCHANGED << pc, showMaintainers, maintainerColumn, filterVars >>

\* The tooltip hides on its own (the widget closes it) and calls onHide.
NoteTipHides ==
    /\ pc = "ready"
    /\ g_noteTip.visible
    /\ LET r == NoteTip_hide(g_noteTip, g_currentlyDescribedElement) IN
         /\ g_currentlyDescribedElement' = r.cur
         /\ g_noteTip' = r.tip
    /\ ev' = Event("hide", "none", FALSE)
    /\ UNCHANGED << pc, showMaintainers, maintainerColumn, filterVars >>

Next ==
    \/ main
    \/ ClickShowMaintainers
    \/ ClickPlatformFilter
    \/ \E i \in PlatformCheckboxes : ClickPlatformCheckbox(i)
    \/ \E a \in NoteLinks : ClickNoteLink(a)
    \/ NoteTipHides

Spec == Init /\ [][Next]_vars

TypeOK ==
    /\ pc \in {"load", "ready"}
    /\ rowClass \in [FrameworkRows -> SUBSET {"available", "not-available"}]
    /\ g_currentlyDescribedElement \in {Undefined, Null} \cup NoteLinks

\* ------------------------------------------------------------------------
\* Properties.

Range(seq) == { seq[i] : i \in 1..Len(seq) }

\* R: the platform set of a row, the platforms it was generated from; a row
\* without platforms has the attribute "", the one-element list [""].
RowPlatformSet(tr) == IF Len(tr) = 0 THEN { <<>> } ELSE Range(tr)

\* W: the tags of the checked platform checkboxes.
WantedSet == { DataPlatform[i] : i \in { j \in PlatformCheckboxes : platformCheckbox[j] } }

IsElement(x) == x \in NoteLinks
TipShown == pc = "ready" /\ g_noteTip.visible
TipShownFor(a) == TipShown /\ g_noteTip.anchor = a
RanUpdatePlatforms == ev.op = "updatePlatforms"

\* C1: after updatePlatforms ran with the filter checkbox checked, a row is
\* marked available iff W is a subset of R, and not-available otherwise.
C1_AvailableIffSubset ==
    (RanUpdatePlatforms /\ platformFilter) =>
        \A tr \in FrameworkRows :
            /\ "available" \in rowClass[tr] <=> WantedSet \subseteq RowPlatformSet(tr)
            /\ "not-available" \in rowClass[tr] <=> ~(WantedSet \subseteq RowPlatformSet(tr))

C1_Witness ==
    /\ RanUpdatePlatforms /\ platformFilter
    /\ WantedSet = { <<"l">>, <<"m">> }
    /\ rowClass[<< <<"m">>, <<"l">> >>] = {"available"}
    /\ rowClass[<< <<"l", "m">> >>] = {"not-available"}

\* C2: g_currentlyDescribedElement refers to a link iff the tooltip is shown
\* for that link.
C2_RefIffShown ==
    /\ IsElement(g_currentlyDescribedElement) => TipShownFor(g_currentlyDescribedElement)
    /\ TipShown => IsElement(g_currentlyDescribedElement)

C2_Witness ==
    /\ ev.op = "click" /\ ev.shown /\ ev.cur # ev.arg
    /\ g_currentlyDescribedElement = ev.arg /\ TipShownFor(ev.arg)

\* C3: after updatePlatforms ran with the filter checkbox unchecked, no row
\* carries available or not-available and the options panel is hidden.
C3_UncheckedClears ==
    (RanUpdatePlatforms /\ ~platformFilter) =>
        /\ \A tr \in FrameworkRows : rowClass[tr] \cap {"available", "not-available"} = {}
        /\ ~platformFilterGroup

C3_Witness ==
    /\ RanUpdatePlatforms /\ ~platformFilter /\ ev.marked
    /\ WantedSet # {}
    /\ \A tr \in FrameworkRows : rowClass[tr] = {}
    /\ ~platformFilterGroup

\* C4: a click on the link the tooltip is shown for hides the tooltip and
\* leaves g_currentlyDescribedElement null.
C4_SameLinkHides ==
    (ev.op = "click" /\ ev.shown /\ ev.cur = ev.arg) =>
        (~TipShown /\ g_currentlyDescribedElement = Null)

C4_Witness ==
    /\ ev.op = "click" /\ ev.shown /\ ev.cur = ev.arg
    /\ ~TipShown /\ g_currentlyDescribedElement = Null

\* C5: a click on link F while the tooltip is shown for another link E leaves
\* the tooltip shown with F's note and F as the described element, and a
\* following click on E shows the tooltip for E.
C5_AfterOtherLink ==
    ev.op = "click" /\ ev.shown /\ IsElement(ev.cur) /\ ev.cur # ev.arg

C5_OtherLinkRetargets ==
    /\ [](C5_AfterOtherLink =>
            /\ TipShownFor(ev.arg)
            /\ g_noteTip.text = DataNote(ev.arg)
            /\ g_currentlyDescribedElement = ev.arg)
    /\ [][(C5_AfterOtherLink /\ ev'.op = "click" /\ ev'.arg = ev.cur) =>
            (g_noteTip'.visible /\ g_noteTip'.anchor = ev.cur
             /\ g_noteTip'.text = DataNote(ev.cur)
             /\ g_currentlyDescribedElement' = ev.cur)]_vars

C5_Witness ==
    /\ C5_AfterOtherLink
    /\ TipShownFor(ev.arg)
    /\ DataNote(ev.arg) # DataNote(ev.cur)
    /\ g_noteTip.text = DataNote(ev.arg)

\* C6: a click on a link while the tooltip is hidden, the first click
\* included, shows the tooltip with the link's note and makes the link the
\* described element.
C6_HiddenClickShows ==
    (ev.op = "click" /\ ~ev.shown /\ ~IsElement(ev.cur)) =>
        /\ TipShownFor(ev.arg)
        /\ g_noteTip.text = DataNote(ev.arg)
        /\ g_currentlyDescribedElement = ev.arg

C6_Witness ==
    /\ ev.op = "click" /\ ~ev.shown /\ ev.cur = Undefined
    /\ TipShownFor(ev.arg) /\ g_noteTip.text = DataNote(ev.arg)

\* C7: the tooltip's own hide event hides the tooltip and clears the
\* described element, so the next click on the link that was described shows
\* the tooltip again.
C7_AfterHide == ev.op = "hide" /\ IsElement(ev.cur)

C7_HideEventClears ==
    /\ [](ev.op = "hide" => (~TipShown /\ g_currentlyDescribedElement = Null))
    /\ [][(C7_AfterHide /\ ev'.op = "click" /\ ev'.arg = ev.cur) =>
            (g_noteTip'.visible /\ g_noteTip'.anchor = ev.cur
             /\ g_currentlyDescribedElement' = ev.cur)]_vars

C7_Witness ==
    /\ C7_AfterHide /\ ev.shown
    /\ ~TipShown /\ g_currentlyDescribedElement = Null

\* C8: no row ever carries both available and not-available.
C8_MarksExclusive ==
    \A tr \in FrameworkRows : ~({"available", "not-available"} \subseteq rowClass[tr])

C8_Witness ==
    /\ RanUpdatePlatforms /\ ev.marked /\ ev.arg = "platform-checkbox"
    /\ \E tr \in FrameworkRows : rowClass[tr] = {"available"}
    /\ \E tr \in FrameworkRows : rowClass[tr] = {"not-available"}

\* C9: once main has run, the maintainer column is visible exactly when the
\* showMaintainers checkbox is checked.
C9_MaintainersMatchCheckbox ==
    pc = "ready" => \A m \in MaintainerColumn : maintainerColumn[m] <=> showMaintainers

C9_Witness ==
    /\ ev.op = "main" /\ ~showMaintainers
    /\ \A m \in MaintainerColumn : ~maintainerColumn[m]

\* C10: after updatePlatforms ran with the filter checkbox checked and no
\* platform checkbox checked, every row is marked available, the rows with an
\* empty data-platforms attribute included.
C10_NothingWantedAllAvailable ==
    (RanUpdatePlatforms /\ platformFilter /\ WantedSet = {}) =>
        \A tr \in FrameworkRows : rowClass[tr] = {"available"}

C10_Witness ==
    /\ RanUpdatePlatforms /\ platformFilter /\ WantedSet = {}
    /\ \A i \in PlatformCheckboxes : ~platformCheckbox[i]
    /\ DataPlatforms(<<>>) = <<>>
    /\ rowClass[<<>>] = {"available"}
    /\ rowClass[<< <<"l">> >>] = {"available"}


\* C11: main does not run the platform filter: it leaves the row marks, the
\* required marks and the visibility of the options panel as the page had
\* them, also when the filter checkbox is checked at load time.
C11_MainLeavesFilterDisplay ==
    [][(pc = "load" /\ pc' = "ready") =>
            UNCHANGED << rowClass, cellRequired, platformFilterGroup >>]_vars

C11_Witness ==
    /\ ev.op = "main" /\ pc = "ready"
    /\ platformFilter /\ WantedSet = { <<"l">> }
    /\ ~platformFilterGroup
    /\ \A tr \in FrameworkRows : rowClass[tr] = {}
    /\ \A c \in PlatformCells : ~cellRequired[c]


\* C12: after updatePlatforms ran, a platform cell carries the required mark
\* iff the filter checkbox is checked and the platform checkbox of the cell's
\* tag is checked; marks of an earlier selection are gone.
C12_RequiredIffWanted ==
    RanUpdatePlatforms =>
        \A c \in PlatformCells :
            cellRequired[c] <=>
                (platformFilter /\ \E i \in PlatformCheckboxes :
                                      platformCheckbox[i] /\ DataPlatform[i] = CellTag(c))

C12_Witness ==
    /\ RanUpdatePlatforms /\ ev.required /\ ev.arg = "platform-checkbox"
    /\ platformFilter /\ WantedSet = { <<"m">> }
    /\ cellRequired[<< << <<"l">>, <<"m">> >>, 2 >>]
    /\ ~cellRequired[<< << <<"l">>, <<"m">> >>, 1 >>]


\* C13: a row whose data-platforms attribute is the empty string counts as
\* having the platform set {""}: with filtering on it is not-available as soon
\* as a checked platform checkbox has a non-empty tag, and available exactly
\* when every checked tag is the empty string (or none is checked).
C13_EmptyAttributeRow ==
    (RanUpdatePlatforms /\ platformFilter) =>
        \A tr \in FrameworkRows :
            Len(DataPlatforms(tr)) = 0 =>
                /\ (\E i \in PlatformCheckboxes :
                        platformCheckbox[i] /\ Len(DataPlatform[i]) > 0)
                      => rowClass[tr] = {"not-available"}
                /\ "available" \in rowClass[tr] <=>
                      \A i \in PlatformCheckboxes :
                          platformCheckbox[i] => Len(DataPlatform[i]) = 0

C13_Witness ==
    /\ RanUpdatePlatforms /\ platformFilter
    /\ platformCheckbox[3] /\ ~platformCheckbox[1] /\ ~platformCheckbox[2]
    /\ Len(DataPlatforms(<<>>)) = 0
    /\ rowClass[<<>>] = {"available"}
    /\ rowClass[<< <<"l">> >>] = {"not-available"}


\* The display a given state of the checkboxes stands for: the panel, the
\* marks of every row and the required mark of every cell.
DisplayOf(doFilter, checked) ==
    LET W == { DataPlatform[i] : i \in { j \in PlatformCheckboxes : checked[j] } } IN
    [panel |-> doFilter,
     rows  |-> [tr \in FrameworkRows |->
                  IF ~doFilter THEN {}
                  ELSE IF W \subseteq RowPlatformSet(tr) THEN {"available"}
                  ELSE {"not-available"}],
     cells |-> [c \in PlatformCells |-> doFilter /\ CellTag(c) \in W]]

\* C14: the display updatePlatforms leaves behind is a function of the
\* current checkbox states alone, whatever the marks before the call and the
\* order of the earlier clicks, and a second run on the same checkboxes would
\* change nothing.
C14_DisplayFunctionOfCheckboxes ==
    RanUpdatePlatforms =>
        /\ [panel |-> platformFilterGroup, rows |-> rowClass, cells |-> cellRequired]
              = DisplayOf(platformFilter, platformCheckbox)
        /\ \A tr \in FrameworkRows :
              rowClass[tr] =
                 IF platformFilter
                 THEN markRow(rowClass[tr], show(wantedPlatforms(platformCheckbox), tr))
                 ELSE unmarkRow(rowClass[tr])

C14_Witness ==
    /\ RanUpdatePlatforms /\ ev.marked /\ ev.required
    /\ platformFilter /\ WantedSet = { <<"l">> }
    /\ rowClass[<< <<"l">> >>] = {"available"}
    /\ rowClass[<< <<"m">> >>] = {"not-available"}
    /\ cellRequired[<< << <<"l">> >>, 1 >>]


\* C15: after any run of updatePlatforms the options panel is visible iff the
\* filter checkbox is checked, and a row carries exactly one of available and
\* not-available iff the filter checkbox is checked: no row is unmarked while
\* filtering is on, none is marked while it is off.
C15_PanelAndMarksFollowFilter ==
    RanUpdatePlatforms =>
        /\ platformFilterGroup <=> platformFilter
        /\ \A tr \in FrameworkRows :
              /\ Cardinality(rowClass[tr] \cap {"available", "not-available"}) = 1
                    <=> platformFilter
              /\ ~platformFilter => rowClass[tr] \cap {"available", "not-available"} = {}

C15_Witness ==
    /\ RanUpdatePlatforms /\ ~ev.marked /\ ev.arg = "platform-filter"
    /\ platformFilter /\ platformFilterGroup
    /\ \A tr \in FrameworkRows :
          Cardinality(rowClass[tr] \cap {"available", "not-available"}) = 1


\* C16: the three handlers touch disjoint state: updateMaintainers leaves the
\* row marks, the required marks, the panel and the tooltip state alone;
\* updatePlatforms leaves the maintainer column and the tooltip state alone;
\* a note-link click leaves the maintainer column, the panel and every row
\* and cell mark alone.
C16_HandlersDisjoint ==
    [][/\ (ev'.op = "updateMaintainers" /\ pc = "ready") =>
              UNCHANGED << rowClass, cellRequired, platformFilterGroup,
                           g_noteTip, g_currentlyDescribedElement >>
       /\ (ev'.op = "updatePlatforms" /\ pc = "ready") =>
              UNCHANGED << maintainerColumn, g_noteTip, g_currentlyDescribedElement >>
       /\ (ev'.op = "click" /\ pc = "ready") =>
              UNCHANGED << maintainerColumn, platformFilterGroup, rowClass,
                           cellRequired >>]_vars

C16_Witness ==
    /\ ev.op = "updateMaintainers" /\ ev.marked /\ ev.required /\ ev.shown
    /\ ~showMaintainers
    /\ TipShownFor(g_currentlyDescribedElement)
    /\ platformFilterGroup
    /\ \E tr \in FrameworkRows : rowClass[tr] = {"not-available"}
    /\ \E c \in PlatformCells : cellRequired[c]


\* C17: the click handler of a note link suppresses the default action of
\* the browser on every click, in the hide branch as in the show branch.
C17_ClickPreventsDefault ==
    ev.op = "click" => ev.prevented

C17_Witness ==
    /\ ev.op = "click" /\ ev.shown /\ ev.cur = ev.arg /\ ev.arg = "a2"
    /\ ev.prevented
    /\ ~TipShown

====
